---- MODULE Spec2Model ----
(***************************************************************************)
(* A model of the rule-application engine of Piranha                       *)
(* (src/src/models/source_code_unit.rs, src/src/models/constraint.rs).     *)
(*                                                                         *)
(* One SourceCodeUnit is modelled: its code, ast, substitutions, rewrites  *)
(* and matches, the rule store's global rules, and the call stack of the   *)
(* recursive engine (apply_rules -> apply_rule -> _apply_rule -> propagate *)
(* -> apply_rule ...).  Source text is a sequence of one-byte tokens of a  *)
(* small bracket language; the tree-sitter parser is the operator Parse.   *)
(***************************************************************************)
EXTENDS Integers, Sequences, FiniteSets, TLC

(***************************************************************************)
(* The token language.  One token is one byte.                             *)
(*   file  := item*            items of a file follow each other           *)
(*   item  := atom | group                                                 *)
(*   group := "(" [ item ("," item)* ] ")"                                 *)
(* "n" is a newline: whitespace, never a node of the tree.                 *)
(***************************************************************************)
Atoms == {"x", "y", "t", "z"}

\* A comment token: a node of the tree that the grammar allows anywhere.
CommentTok == "#"

Newline == "n"

Comma == ","

RECURSIVE SeqRange(_)
SeqRange(s) == IF s = <<>> THEN {} ELSE {Head(s)} \cup SeqRange(Tail(s))

\* text[lo+1 .. hi] : the bytes lo .. hi-1, as Rust's code[lo..hi]
Slice(text, lo, hi) == SubSeq(text, lo + 1, hi)

\* Body applied to the value of v, which is evaluated once.
With(v, Body(_)) == CHOOSE r \in {Body(x) : x \in {v}} : TRUE

Min(S) == CHOOSE m \in S : \A k \in S : m <= k

Max(S) == CHOOSE m \in S : \A k \in S : m >= k

\* Nesting depth after the first i tokens.
Depth(text, i) ==
  Cardinality({k \in 1..i : text[k] = "("}) - Cardinality({k \in 1..i : text[k] = ")"})

\* Index of the nearest token before/after index i that is not whitespace (0 if none).
PrevSig(text, i) ==
  LET S == {k \in 1..(i - 1) : text[k] \notin {Newline, CommentTok}} IN IF S = {} THEN 0 ELSE Max(S)

NextSig(text, i) ==
  LET S == {k \in (i + 1)..Len(text) : text[k] \notin {Newline, CommentTok}} IN IF S = {} THEN 0 ELSE Min(S)

Balanced(text) ==
  /\ \A i \in 1..Len(text) : Depth(text, i) >= 0
  /\ Depth(text, Len(text)) = 0

\* A comma separates two items of a group.
CommaOk(text, i) ==
  LET p == PrevSig(text, i)
      q == NextSig(text, i)
  IN /\ Depth(text, i) >= 1
     /\ p # 0 /\ text[p] \in Atoms \cup {")"}
     /\ q # 0 /\ text[q] \in Atoms \cup {"("}

\* Inside a group an item follows "(" or ","; ")" closes after "(" or an item.
ItemOk(text, i) ==
  LET p == PrevSig(text, i)
  IN Depth(text, i - 1) >= 1 => text[p] \in {"(", ","}

\* tree_sitter: Node::has_error of the root of the parse of text
HasError(text) ==
  \/ ~Balanced(text)
  \/ \E i \in 1..Len(text) :
       \/ text[i] = Comma /\ ~CommaOk(text, i)
       \/ text[i] \in Atoms \cup {"("} /\ ~ItemOk(text, i)

\* Index of the ")" closing the "(" at index i of a balanced text.
Close(text, i) ==
  Min({j \in (i + 1)..Len(text) : text[j] = ")" /\ Depth(text, j) = Depth(text, i) - 1})

Node(s, e, k) == [start_byte |-> s, end_byte |-> e, kind |-> k]

RootOf(text) == Node(0, Len(text), "file")

Leaves(text) ==
  {Node(i - 1, i, IF text[i] \in Atoms THEN "atom"
                     ELSE IF text[i] = CommentTok THEN "comment" ELSE text[i]) :
     i \in {k \in 1..Len(text) : text[k] # Newline}}

Groups(text) ==
  {Node(i - 1, Close(text, i), "group") : i \in {k \in 1..Len(text) : text[k] = "("}}

\* tree_sitter: Parser::parse.  The tree of a text: its nodes and the error flag.
\* A text with a syntax error keeps its token nodes under the root.
Parse(text) ==
  [err   |-> HasError(text),
   nodes |-> {RootOf(text)} \cup Leaves(text)
             \cup (IF Balanced(text) THEN Groups(text) ELSE {})]

(***************************************************************************)
(* Options (Rust's Option<T>) are sequences of length at most one.         *)
(***************************************************************************)
None == <<>>

Some(v) == <<v>>

IsSome(o) == o # <<>>

(***************************************************************************)
(* tree_sitter: navigation in a tree T (a set of nodes).                   *)
(***************************************************************************)
\* The root spans every node; among equal ranges the root is the outer one.
Size(n) == 2 * (n.end_byte - n.start_byte) + (IF n.kind = "file" THEN 1 ELSE 0)

IsAncestor(p, n) ==
  /\ p # n
  /\ n.kind # "file"
  /\ p.kind \in {"file", "group"}
  /\ p.start_byte <= n.start_byte
  /\ n.end_byte <= p.end_byte

Ancestors(T, n) == {p \in T : IsAncestor(p, n)}

\* Node::parent
ParentOf(T, n) ==
  LET A == Ancestors(T, n)
  IN IF A = {} THEN None ELSE Some(CHOOSE p \in A : \A q \in A : Size(p) <= Size(q))

Children(T, n) == {c \in T : ParentOf(T, c) = Some(n)}

\* Node::child_count
ChildCount(T, n) == Cardinality(Children(T, n))

\* Node::child(0)
FirstChild(T, n) ==
  CHOOSE c \in Children(T, n) : \A d \in Children(T, n) : c.start_byte <= d.start_byte

Subtree(T, n) == {n} \cup {c \in T : IsAncestor(n, c)}

TreeRoot(T) == CHOOSE r \in T : r.kind = "file"

\* A finite set as the sequence ordered by the (injective) integer key f.
RECURSIVE SortedBy(_, _)
SortedBy(S, f) ==
  IF S = {} THEN <<>>
  ELSE LET m == CHOOSE a \in S : \A b \in S : f[a] <= f[b]
       IN <<m>> \o SortedBy(S \ {m}, f)

\* A base for sort keys: above the Size of every node of T.
KeyBase(T) == 2 * TreeRoot(T).end_byte + 2

\* tree_sitter_traversal: traverse(node.walk(), Order::Post): children left to
\* right, then the node.
PostOrder(T, n) ==
  With(Subtree(T, n),
       LAMBDA S : SortedBy(S, [a \in S |-> a.end_byte * KeyBase(T) + Size(a)]))

\* Pre-order: a node, then its children left to right.
PreOrder(T, n) ==
  With(Subtree(T, n),
       LAMBDA S : SortedBy(S, [a \in S |->
                                 a.start_byte * KeyBase(T) + (KeyBase(T) - 1 - Size(a))]))

\* tree_sitter: Node::descendant_for_byte_range(lo, hi), from node downwards:
\* descend into the first child whose end reaches hi and passes lo, while that
\* child starts at or before lo.
RECURSIVE DescendantForByteRange(_, _, _, _)
DescendantForByteRange(T, node, lo, hi) ==
  With({c \in Children(T, node) : c.end_byte >= hi /\ c.end_byte > lo},
       LAMBDA cs :
         IF cs = {} THEN node
         ELSE With(CHOOSE a \in cs : \A b \in cs : a.start_byte <= b.start_byte,
                   LAMBDA c : IF c.start_byte <= lo
                              THEN DescendantForByteRange(T, c, lo, hi) ELSE node))

\* get_node_for_range(root, s, e) of tree_sitter_utilities
get_node_for_range(T, s, e) == DescendantForByteRange(T, TreeRoot(T), s, e)

(***************************************************************************)
(* tree_sitter: Point and Range.                                           *)
(***************************************************************************)
PointAt(text, byte) ==
  LET nl == {k \in 1..byte : text[k] = Newline}
  IN [row |-> Cardinality(nl), column |-> byte - (IF nl = {} THEN 0 ELSE Max(nl))]

RangeAt(text, s, e) ==
  [start_byte |-> s, end_byte |-> e,
   start_point |-> PointAt(text, s), end_point |-> PointAt(text, e)]

\* Node::range
NodeRange(text, n) == RangeAt(text, n.start_byte, n.end_byte)

\* Node::utf8_text
NodeText(text, n) == Slice(text, n.start_byte, n.end_byte)

(***************************************************************************)
(* Substitutions: HashMap<String, String>, a function from capture names   *)
(* (sequences of characters) to snippets (sequences of tokens).            *)
(***************************************************************************)
EmptyMap == <<>>

\* HashMap::extend: the entries of b are inserted into a, overwriting.
Extend(a, b) ==
  [k \in (DOMAIN a) \cup (DOMAIN b) |-> IF k \in DOMAIN b THEN b[k] ELSE a[k]]

\* A one-entry map.
Entry(k, v) == [c \in {k} |-> v]

\* str::starts_with
StartsWith(s, prefix) ==
  Len(s) >= Len(prefix) /\ SubSeq(s, 1, Len(prefix)) = prefix

(***************************************************************************)
(* Match and Edit (src/polyglot/piranha/crates/models/src/edit.rs).        *)
(***************************************************************************)
\* Match::new(matched_string, range, matches)
Match(str, range, caps) == [matched_string |-> str, range |-> range, matches |-> caps]

\* Edit::new(p_match, replacement_string, matched_rule)
Edit(m, repl, rule) == [p_match |-> m, replacement_string |-> repl, matched_rule |-> rule]

\* str::trim of a snippet leaves nothing
TrimIsEmpty(snippet) == \A i \in 1..Len(snippet) : snippet[i] = Newline

\* Edit::is_delete: the replacement is empty after trimming
is_delete(edit) == TrimIsEmpty(edit.replacement_string)

(***************************************************************************)
(* The query engine.  A query is a record; q.q names its shape:            *)
(*   atom        an atom whose text is q.text; captures q.cap              *)
(*   atom_hole   an atom whose text is the value of hole q.hole            *)
(*   cond        a group ( <atom q.text> , B ); captures q.cap |-> B       *)
(*   empty       a group with no item                                      *)
(*   group       any group                                                 *)
(*   scope       the scope of tag q.tag around bytes q.s .. q.e            *)
(***************************************************************************)
QAtom(text, cap) == [q |-> "atom", text |-> text, cap |-> cap, tag |-> "", s |-> 0, e |-> 0]

QHole(hole, cap) == [q |-> "atom_hole", text |-> hole, cap |-> cap, tag |-> "", s |-> 0, e |-> 0]

QCond(text, cap) == [q |-> "cond", text |-> text, cap |-> cap, tag |-> "", s |-> 0, e |-> 0]

QEmpty(cap) == [q |-> "empty", text |-> <<>>, cap |-> cap, tag |-> "", s |-> 0, e |-> 0]

QGroup(cap) == [q |-> "group", text |-> <<>>, cap |-> cap, tag |-> "", s |-> 0, e |-> 0]

QScope(tag, s, e) == [q |-> "scope", text |-> <<>>, cap |-> <<>>, tag |-> tag, s |-> s, e |-> e]

\* substitute_tags: the holes of a query are replaced by their values
substitute_tags(q, substitutions) ==
  IF q.q = "atom_hole" /\ q.text \in DOMAIN substitutions
  THEN QAtom(substitutions[q.text], q.cap)
  ELSE q

\* The children of a group that are not comments, left to right.
Items(T, g) ==
  With({c \in Children(T, g) : c.kind # "comment"},
       LAMBDA cs : SortedBy(cs, [c \in cs |-> c.start_byte]))

\* A scope of the language: a Class is a group of the file, a Method a group of
\* a group.
IsScope(T, n, tag) ==
  /\ n.kind = "group"
  /\ LET p == ParentOf(T, n)[1]
     IN CASE tag = "Class" -> p.kind = "file"
          [] tag = "Method" -> p.kind = "group"
          [] OTHER -> FALSE

Covers(n, s, e) == n.start_byte <= s /\ e <= n.end_byte

\* Whether query q matches with node n as the root of the match.
Matches(T, text, q, n) ==
  CASE q.q = "atom" -> n.kind = "atom" /\ NodeText(text, n) = q.text
    [] q.q = "cond" ->
         /\ n.kind = "group"
         /\ With(Items(T, n),
                 LAMBDA it : /\ Len(it) = 5
                             /\ it[2].kind = "atom" /\ NodeText(text, it[2]) = q.text
                             /\ it[3].kind = Comma)
    [] q.q = "empty" -> n.kind = "group" /\ Len(Items(T, n)) = 2
    [] q.q = "group" -> n.kind = "group"
    [] q.q = "scope" ->
         /\ IsScope(T, n, q.tag) /\ Covers(n, q.s, q.e)
         /\ \A m \in Subtree(T, n) \ {n} : ~(IsScope(T, m, q.tag) /\ Covers(m, q.s, q.e))
    [] OTHER -> FALSE

\* The captures of the match of q rooted at n.
Captures(T, text, q, n) ==
  CASE q.q = "cond" -> Entry(q.cap, NodeText(text, Items(T, n)[4]))
    [] q.q = "scope" -> EmptyMap
    [] OTHER -> Entry(q.cap, NodeText(text, n))

MatchOf(T, text, q, n) == Match(NodeText(text, n), NodeRange(text, n), Captures(T, text, q, n))

RECURSIVE MatchesAmong(_, _, _, _)
MatchesAmong(seq, T, text, q) ==
  IF seq = <<>> THEN <<>>
  ELSE (IF Matches(T, text, q, Head(seq)) THEN <<MatchOf(T, text, q, Head(seq))>> ELSE <<>>)
       \o MatchesAmong(Tail(seq), T, text, q)

\* get_all_matches_for_query: the matches rooted at node, or (recursive) at any
\* node of its subtree, in pre-order.
get_all_matches_for_query(T, text, q, node, recursive) ==
  MatchesAmong(IF recursive THEN PreOrder(T, node) ELSE <<node>>, T, text, q)

\* get_match_for_query: the first match
get_match_for_query(T, text, q, node, recursive) ==
  With(get_all_matches_for_query(T, text, q, node, recursive),
       LAMBDA all : IF all = <<>> THEN None ELSE Some(all[1]))

(***************************************************************************)
(* Rules and constraints.                                                  *)
(***************************************************************************)
\* Constraint { matcher, queries }  (constraint.rs)
Constraint(matcher, queries) == [matcher |-> matcher, queries |-> queries]

\* A replacement template: literal text, or the value of a capture.
Lit(text) == [kind |-> "lit", v |-> text]

Cap(name) == [kind |-> "cap", v |-> name]

\* A rule.  replace_node tells whether the rule names a node to replace;
\* a rule without one is match-only.
Rule(name, query, replace_node, replace, holes, constraints) ==
  [name |-> name, query |-> query, replace_node |-> replace_node, replace |-> replace,
   holes |-> holes, constraints |-> constraints]

\* Rule::is_match_only_rule
is_match_only_rule(rule) == ~rule.replace_node

\* InstantiatedRule::new: the holes of the query are filled from the substitutions.
Instantiate(rule, substitutions) ==
  [rule EXCEPT !.query = substitute_tags(rule.query, substitutions)]

\* The unit's view needed by the read-only helpers.
Unit(code, ast, substitutions) == [code |-> code, ast |-> ast, substitutions |-> substitutions]

\* Any of the forbidden queries matches somewhere in the scope node.
AnyQueryMatches(u, queries, scope_node, substitutions) ==
  \E i \in 1..Len(queries) :
    IsSome(get_match_for_query(u.ast.nodes, u.code,
                               substitute_tags(queries[i], substitutions), scope_node, TRUE))

\* The while loop of _is_satisfied, from current_node upwards.
RECURSIVE ConstraintWalk(_, _, _, _)
ConstraintWalk(u, constraint, current_node, substitutions) ==
  With(ParentOf(u.ast.nodes, current_node),
       LAMBDA parent :
         IF ~IsSome(parent) THEN FALSE
         ELSE With(get_match_for_query(u.ast.nodes, u.code,
                                       substitute_tags(constraint.matcher, substitutions),
                                       parent[1], FALSE),
                   LAMBDA p_match :
                     IF IsSome(p_match)
                     THEN ~AnyQueryMatches(u, constraint.queries,
                                           get_node_for_range(u.ast.nodes,
                                                              p_match[1].range.start_byte,
                                                              p_match[1].range.end_byte),
                                           substitutions)
                     ELSE ConstraintWalk(u, constraint, parent[1], substitutions)))

\* The nodes that the while loop of _is_satisfied tests against the matcher,
\* in the order of the tests, from current_node upwards (lines 74-99).
RECURSIVE WalkTested(_, _, _, _)
WalkTested(u, constraint, current_node, substitutions) ==
  With(ParentOf(u.ast.nodes, current_node),
       LAMBDA parent :
         IF ~IsSome(parent) THEN <<>>
         ELSE IF IsSome(get_match_for_query(u.ast.nodes, u.code,
                                            substitute_tags(constraint.matcher,
                                                            substitutions),
                                            parent[1], FALSE))
              THEN <<parent[1]>>
              ELSE <<parent[1]>> \o WalkTested(u, constraint, parent[1], substitutions))

\* As walk_start, but the walk starts at the node also when it has children.
walk_start_at_node(u, node) == node

\* _is_satisfied, lines 66-71: the node at which the walk starts
walk_start(u, node) ==
  IF ChildCount(u.ast.nodes, node) > 0 THEN FirstChild(u.ast.nodes, node) ELSE node

\* As is_satisfied_one, but the walk starts at the node also when it has children.
is_satisfied_from_node(u, constraint, node, substitutions) ==
  ConstraintWalk(u, constraint, node, substitutions)

\* SourceCodeUnit::_is_satisfied
is_satisfied_one(u, constraint, node, substitutions) ==
  ConstraintWalk(u, constraint, walk_start(u, node), substitutions)

\* SourceCodeUnit::is_satisfied
is_satisfied(u, node, rule, substitutions, input_substitutions) ==
  LET updated_substitutions == Extend(input_substitutions, substitutions)
  IN \A i \in 1..Len(rule.constraints) :
       is_satisfied_one(u, rule.constraints[i], node, updated_substitutions)

\* Whether match m of the rule passes the rule's constraints.
PassesConstraints(u, rule, m, input_substitutions) ==
  is_satisfied(u, get_node_for_range(u.ast.nodes, m.range.start_byte, m.range.end_byte),
               rule, m.matches, input_substitutions)

RECURSIVE FilterMatches(_, _, _, _)
FilterMatches(u, rule, ms, input_substitutions) ==
  IF ms = <<>> THEN <<>>
  ELSE (IF PassesConstraints(u, rule, Head(ms), input_substitutions)
        THEN <<Head(ms)>> ELSE <<>>)
       \o FilterMatches(u, rule, Tail(ms), input_substitutions)

\* SourceCodeUnit::get_matches: all the matches of the rule under the node that
\* pass the constraints, in byte order.
get_matches(u, rule, node, recursive, input_substitutions) ==
  FilterMatches(u, rule,
                get_all_matches_for_query(u.ast.nodes, u.code, rule.query, node, recursive),
                input_substitutions)

\* The replacement template with the captures of the match and the accumulated
\* substitutions filled in.
Interpolate(template, captures, substitutions) ==
  IF template.kind = "lit" THEN template.v
  ELSE LET env == Extend(substitutions, captures)
       IN IF template.v \in DOMAIN env THEN env[template.v] ELSE <<>>

\* SourceCodeUnit::get_edit: the first match by byte order, if it passes the
\* constraints, with the interpolated replacement.
get_edit(u, rule, node, recursive, input_substitutions) ==
  With(get_match_for_query(u.ast.nodes, u.code, rule.query, node, recursive),
       LAMBDA first :
         IF IsSome(first) /\ PassesConstraints(u, rule, first[1], input_substitutions)
         THEN Some(Edit(first[1],
                        Interpolate(rule.replace, first[1].matches, u.substitutions),
                        rule.name))
         ELSE None)

(***************************************************************************)
(* The edit applier: apply_edit and its helpers (source_code_unit.rs).     *)
(***************************************************************************)
\* Iterator::min_by: the first element of seq with the least key.
RECURSIVE MinBy(_, _)
MinBy(seq, key) ==
  IF Len(seq) = 1 THEN seq[1]
  ELSE With(MinBy(Tail(seq), key),
            LAMBDA rest : IF key[Head(seq)] <= key[rest] THEN Head(seq) ELSE rest)

RECURSIVE FilterNodes(_, _)
FilterNodes(seq, keep) ==
  IF seq = <<>> THEN <<>>
  ELSE (IF Head(seq) \in keep THEN <<Head(seq)>> ELSE <<>>) \o FilterNodes(Tail(seq), keep)

\* SourceCodeUnit::_is_comma
is_comma(code, node) ==
  LET content == NodeText(code, node)
  IN \E i \in 1..Len(content) :
       /\ content[i] = Comma
       /\ \A j \in 1..Len(content) : j # i => content[j] = Newline

\* The node of the sequence nearest to the deleted range, if it is a comma.
NearestComma(code_, nodes, distance) ==
  IF nodes = <<>> THEN None
  ELSE With(MinBy(nodes, distance),
            LAMBDA nearest : IF is_comma(code_, nearest)
                             THEN Some(NodeRange(code_, nearest)) ELSE None)

\* get_trailing_comma, lines 403-410: the nodes that min_by compares, those of
\* the parent of the node after the deleted range that start at or after its
\* end, in post-order; none when that node has no parent.
trailing_nodes(u, edit) ==
  With(ParentOf(u.ast.nodes,
                DescendantForByteRange(u.ast.nodes, TreeRoot(u.ast.nodes),
                                       edit.p_match.range.end_byte,
                                       edit.p_match.range.end_byte + 1)),
       LAMBDA parent_node :
         IF ~IsSome(parent_node) THEN <<>>
         ELSE FilterNodes(PostOrder(u.ast.nodes, parent_node[1]),
                          {n \in u.ast.nodes :
                             n.start_byte >= edit.p_match.range.end_byte}))

\* get_trailing_comma, line 412: the key of min_by
trailing_distance(u, edit) ==
  [n \in u.ast.nodes |-> n.start_byte - edit.p_match.range.end_byte]

\* SourceCodeUnit::get_trailing_comma
get_trailing_comma(u, edit) ==
  NearestComma(u.code, trailing_nodes(u, edit), trailing_distance(u, edit))

\* get_leading_comma, lines 431-435: the end of the byte range looked up
leading_lookup_end(start_byte) == IF start_byte = 0 THEN 0 ELSE start_byte - 1

\* As leading_nodes, but without the filter on the end of the nodes.
leading_nodes_unfiltered(u, edit) ==
  With(ParentOf(u.ast.nodes,
                DescendantForByteRange(u.ast.nodes, TreeRoot(u.ast.nodes),
                                       edit.p_match.range.start_byte,
                                       leading_lookup_end(edit.p_match.range.start_byte))),
       LAMBDA parent_node :
         IF ~IsSome(parent_node) THEN <<>>
         ELSE PostOrder(u.ast.nodes, parent_node[1]))

\* get_leading_comma, lines 427-441: the nodes that min_by compares, those of
\* the parent of the node before the deleted range that end at or before its
\* start, in post-order; none when that node has no parent.
leading_nodes(u, edit) ==
  With(ParentOf(u.ast.nodes,
                DescendantForByteRange(u.ast.nodes, TreeRoot(u.ast.nodes),
                                       edit.p_match.range.start_byte,
                                       leading_lookup_end(edit.p_match.range.start_byte))),
       LAMBDA parent_node :
         IF ~IsSome(parent_node) THEN <<>>
         ELSE FilterNodes(PostOrder(u.ast.nodes, parent_node[1]),
                          {n \in u.ast.nodes :
                             n.end_byte <= edit.p_match.range.start_byte}))

\* get_leading_comma, line 443: the key of min_by
leading_distance(u, edit) ==
  [n \in u.ast.nodes |-> edit.p_match.range.start_byte - n.end_byte]

\* SourceCodeUnit::get_leading_comma
get_leading_comma(u, edit) ==
  NearestComma(u.code, leading_nodes(u, edit), leading_distance(u, edit))

\* The range of delete_trailing_comma: widened by the trailing comma, else by the
\* leading comma, else the range of the match.
WidenedRange(r, next_node_range, prev_node_range) ==
  IF IsSome(next_node_range)
  THEN [r EXCEPT !.end_byte = next_node_range[1].end_byte,
                 !.end_point = next_node_range[1].end_point]
  ELSE IF IsSome(prev_node_range)
  THEN [r EXCEPT !.start_byte = prev_node_range[1].start_byte,
                 !.start_point = prev_node_range[1].start_point]
  ELSE r

\* As new_deleted_range, but the leading comma is looked for first.
new_deleted_range_leading_first(u, edit) ==
  With(get_leading_comma(u, edit),
       LAMBDA prev_node_range :
         With(IF IsSome(prev_node_range) THEN None ELSE get_trailing_comma(u, edit),
              LAMBDA next_node_range :
                WidenedRange(edit.p_match.range, next_node_range, prev_node_range)))

\* delete_trailing_comma, lines 368-382: the trailing comma is looked for first,
\* the leading comma only when there is none.
new_deleted_range(u, edit) ==
  With(get_trailing_comma(u, edit),
       LAMBDA next_node_range :
         With(IF IsSome(next_node_range) THEN None ELSE get_leading_comma(u, edit),
              LAMBDA prev_node_range :
                WidenedRange(edit.p_match.range, next_node_range, prev_node_range)))

\* SourceCodeUnit::delete_trailing_comma
delete_trailing_comma(u, edit) ==
  With(new_deleted_range(u, edit),
       LAMBDA r : Edit(Match(Slice(u.code, r.start_byte, r.end_byte), r,
                             edit.p_match.matches),
                       edit.replacement_string, edit.matched_rule))

\* get_tree_sitter_edit: the new source code and the InputEdit of an edit
get_tree_sitter_edit(code, edit) ==
  LET r == edit.p_match.range
      new_source_code == Slice(code, 0, r.start_byte) \o edit.replacement_string
                         \o Slice(code, r.end_byte, Len(code))
      new_end_byte == r.start_byte + Len(edit.replacement_string)
  IN [new_source_code |-> new_source_code,
      ts_edit |-> [start_byte |-> r.start_byte,
                   old_end_byte |-> r.end_byte,
                   new_end_byte |-> new_end_byte,
                   start_position |-> r.start_point,
                   old_end_position |-> r.end_point,
                   new_end_position |-> PointAt(new_source_code, new_end_byte)]]

\* get_replace_range: the range an InputEdit leaves behind
get_replace_range(ts_edit) ==
  [start_byte |-> ts_edit.start_byte, end_byte |-> ts_edit.new_end_byte,
   start_point |-> ts_edit.start_position, end_point |-> ts_edit.new_end_position]

\* As _replace_file_contents_and_re_parse, but the tree of the old text is kept.
replace_file_contents_only(u, replacement_content) ==
  [u EXCEPT !.code = replacement_content]

\* SourceCodeUnit::_replace_file_contents_and_re_parse
replace_file_contents_and_re_parse(u, replacement_content) ==
  [u EXCEPT !.ast = Parse(replacement_content), !.code = replacement_content]

\* The comment that _delete_associated_comment removes after the delete edit:
\* the one that alone fills the line before the deletion's start line.
AssociatedComment(u, edit, args) ==
  LET row == edit.p_match.range.start_point.row
      on_line == {n \in u.ast.nodes :
                    /\ n.kind \notin {"file", "group"}
                    /\ PointAt(u.code, n.start_byte).row = row - 1}
  IN IF args.cleanup_comments_buffer >= 1 /\ row >= 1
        /\ on_line # {} /\ \A n \in on_line : n.kind = "comment"
     THEN Some(NodeRange(u.code, CHOOSE n \in on_line : TRUE))
     ELSE None

\* The delete edit of a range (the comment's).
DeleteRange(code_, range) ==
  Edit(Match(Slice(code_, range.start_byte, range.end_byte), range, EmptyMap), <<>>,
       "Delete Range")

\* The events of the history: an edit is pushed to rewrites, an edit is applied
\* to the text.
Rec(edit) == [ev |-> "record", edit |-> edit]

ApplyEv(edit) == [ev |-> "apply", edit |-> edit]

\* The edits of the events of one kind, in order.
RECURSIVE EditsOf(_, _)
EditsOf(events, ev) ==
  IF events = <<>> THEN <<>>
  ELSE (IF Head(events).ev = ev THEN <<Head(events).edit>> ELSE <<>>)
       \o EditsOf(Tail(events), ev)

\* _delete_associated_comment: the delete edit of the comment is recorded and
\* applied; its result is the result of the whole apply_edit.
AfterEdit(edit, comment_edit, result) ==
  [result EXCEPT !.events = <<ApplyEv(edit), Rec(comment_edit)>> \o result.events]

\* The result of apply_edit: the unit, the applied InputEdit, what happened after
\* the caller's push (edits applied, edits pushed to rewrites), and the panic.
Result(unit, ts_edit, events, panic) ==
  [unit |-> unit, ts_edit |-> ts_edit, events |-> events, panic |-> panic]

\* As has_error, but an error in the tree goes unnoticed.
has_error_ignored(u) == FALSE

\* apply_edit, line 338: the re-parsed tree has an error
has_error(u) == u.ast.err

\* As cleanup_applies, but cleanup_comments is not read.
cleanup_applies_to_every_delete(edit, args) == is_delete(edit)

\* apply_edit, line 346: the condition of the associated-comment cleanup
cleanup_applies(edit, args) == is_delete(edit) /\ args.cleanup_comments

\* SourceCodeUnit::apply_edit.
RECURSIVE apply_edit(_, _, _)
apply_edit(u, edit0, args) ==
  With(IF is_delete(edit0) THEN delete_trailing_comma(u, edit0) ELSE edit0,
    LAMBDA edit :
      With(get_tree_sitter_edit(u.code, edit),
        LAMBDA tse :
          With(replace_file_contents_and_re_parse(u, tse.new_source_code),
            LAMBDA u1 :
              IF has_error(u1)
              THEN Result(u1, tse.ts_edit, <<ApplyEv(edit)>>, TRUE)
              ELSE With(IF cleanup_applies(edit, args)
                        THEN AssociatedComment(u1, edit, args) ELSE None,
                     LAMBDA comment :
                       IF IsSome(comment)
                       THEN AfterEdit(edit, DeleteRange(u1.code, comment[1]),
                                      apply_edit(u1, DeleteRange(u1.code, comment[1]),
                                                 args))
                       ELSE Result(u1, tse.ts_edit, <<ApplyEv(edit)>>, FALSE)))))

(***************************************************************************)
(* The rules of the model and the rule graph.                              *)
(***************************************************************************)
CapA == <<"a">>

CapB == <<"b">>

CapD == <<"d">>

CapE == <<"e">>

\* A capture exported to other files: its name starts with the global tag prefix.
CapGm == <<"G", "m">>

\* A capture whose name holds the prefix, but not at its start.
CapMG == <<"m", "G">>

GlobalTagPrefix == <<"G">>

NoReplace == Lit(<<>>)

\* The rules, by name.
\*   RX  rewrites the atom x to t           RZ  rewrites the atom z to x
\*   RT  rewrites the group (t,B) to B      RE  deletes an empty group
\*   RD  deletes the atom y                 MY  matches the atom y (match-only)
\*   RU  rewrites the atom t to x           MX  matches the atom x (match-only)
\*   RH  rewrites the atom whose text is the value of the hole b to z
\*   RC  rewrites the atom x to t, unless the nearest group around it holds a z
\*   RK  rewrites the group (x,B) to B, unless the nearest group holds a z
RuleNames == {"RX", "RT", "RD", "RE", "RZ", "MY", "RU", "MX", "RH", "RC", "RK"}

RuleDef(name) ==
  CASE name = "RX" -> Rule("RX", QAtom(<<"x">>, CapA), TRUE, Lit(<<"t">>), {}, <<>>)
    [] name = "RT" -> Rule("RT", QCond(<<"t">>, CapB), TRUE, Cap(CapB), {}, <<>>)
    [] name = "RD" -> Rule("RD", QAtom(<<"y">>, CapD), TRUE, Lit(<<>>), {}, <<>>)
    [] name = "RE" -> Rule("RE", QEmpty(CapE), TRUE, Lit(<<>>), {}, <<>>)
    [] name = "RZ" -> Rule("RZ", QAtom(<<"z">>, CapA), TRUE, Lit(<<"x">>), {}, <<>>)
    [] name = "MY" -> Rule("MY", QAtom(<<"y">>, CapGm), FALSE, NoReplace, {}, <<>>)
    [] name = "RU" -> Rule("RU", QAtom(<<"t">>, CapA), TRUE, Lit(<<"x">>), {}, <<>>)
    [] name = "MX" -> Rule("MX", QAtom(<<"x">>, CapMG), FALSE, NoReplace, {}, <<>>)
    [] name = "RH" -> Rule("RH", QHole(CapB, CapA), TRUE, Lit(<<"z">>), {CapB}, <<>>)
    [] name = "RC" -> Rule("RC", QAtom(<<"x">>, CapA), TRUE, Lit(<<"t">>), {},
                           <<Constraint(QGroup(CapE), <<QAtom(<<"z">>, CapA)>>)>>)
    [] name = "RK" -> Rule("RK", QCond(<<"x">>, CapB), TRUE, Cap(CapB), {},
                           <<Constraint(QGroup(CapE), <<QAtom(<<"z">>, CapA)>>)>>)

PARENT == "Parent"

GLOBAL == "Global"

\* The scope tags of the language besides Parent and Global.
ScopeTags == {"Method", "Class"}

Edge(from, to, scope) == [from |-> from, to |-> to, scope |-> scope]

\* The successors of rule `from` over edges of one scope, in declaration order,
\* instantiated; an edge is live when the holes of its target are bound.
RECURSIVE NextInScope(_, _, _, _)
NextInScope(edges, from, scope, substitutions) ==
  IF edges = <<>> THEN <<>>
  ELSE LET e == Head(edges)
       IN (IF e.from = from /\ e.scope = scope
              /\ RuleDef(e.to).holes \subseteq DOMAIN substitutions
           THEN <<Instantiate(RuleDef(e.to), substitutions)>> ELSE <<>>)
          \o NextInScope(Tail(edges), from, scope, substitutions)

\* RuleGraph::get_next: the next rules by scope
get_next(rule_graph, current_rule, substitutions) ==
  [scope \in {PARENT, GLOBAL} \cup ScopeTags |->
     NextInScope(rule_graph, current_rule, scope, substitutions)]

\* SourceCodeUnit::get_scope_query: the query locating the scope of the tag
\* around the bytes start .. end
get_scope_query(scope_level, start_byte, end_byte) == QScope(scope_level, start_byte, end_byte)

\* As get_scope_node, but a scope query without a match gives the node at the
\* bytes the query was made for.
get_scope_node_at_anchor(u, scope_query) ==
  With(IF IsSome(scope_query)
       THEN get_match_for_query(u.ast.nodes, u.code, scope_query[1],
                                TreeRoot(u.ast.nodes), TRUE)
       ELSE None,
       LAMBDA p_match :
         IF IsSome(p_match)
         THEN get_node_for_range(u.ast.nodes, p_match[1].range.start_byte,
                                 p_match[1].range.end_byte)
         ELSE IF IsSome(scope_query)
         THEN get_node_for_range(u.ast.nodes, scope_query[1].s, scope_query[1].e)
         ELSE TreeRoot(u.ast.nodes))

\* SourceCodeUnit::get_scope_node
get_scope_node(u, scope_query) ==
  With(IF IsSome(scope_query)
       THEN get_match_for_query(u.ast.nodes, u.code, scope_query[1],
                                TreeRoot(u.ast.nodes), TRUE)
       ELSE None,
       LAMBDA p_match :
         IF IsSome(p_match)
         THEN get_node_for_range(u.ast.nodes, p_match[1].range.start_byte,
                                 p_match[1].range.end_byte)
         ELSE TreeRoot(u.ast.nodes))

\* The changed node and its ancestors, nearest first, at most `depth` ancestors.
RECURSIVE Context(_, _, _)
Context(T, node, depth) ==
  LET parent == ParentOf(T, node)
  IN IF depth = 0 \/ ~IsSome(parent) THEN <<node>>
     ELSE <<node>> \o Context(T, parent[1], depth - 1)

\* The first edit of the rule on a node of the context.
RECURSIVE FirstEditIn(_, _, _, _)
FirstEditIn(u, rule, context, input_substitutions) ==
  IF context = <<>> THEN None
  ELSE With(get_edit(u, rule, Head(context), FALSE, input_substitutions),
            LAMBDA edit : IF IsSome(edit) THEN edit
                          ELSE FirstEditIn(u, rule, Tail(context), input_substitutions))

RECURSIVE FirstEditOf(_, _, _, _)
FirstEditOf(u, rules, context, input_substitutions) ==
  IF rules = <<>> THEN None
  ELSE With(FirstEditIn(u, Head(rules), context, input_substitutions),
            LAMBDA edit : IF IsSome(edit) THEN edit
                          ELSE FirstEditOf(u, Tail(rules), context, input_substitutions))

\* SourceCodeUnit::get_edit_for_context
get_edit_for_context(u, previous_edit_start, previous_edit_end, rules, args) ==
  With(Context(u.ast.nodes,
               get_node_for_range(u.ast.nodes, previous_edit_start, previous_edit_end),
               args.number_of_ancestors_in_parent_scope),
       LAMBDA context : FirstEditOf(u, rules, context, args.input_substitutions))

\* As push_front, but the pair goes to the back of the queue.
push_back(stack, pair) == Append(stack, pair)

\* VecDeque::push_front, line 277
push_front(stack, pair) == <<pair>> \o stack

\* The (scope_query, rule) pairs of one scope level, pushed to the front of the
\* stack one after the other.  The field seq is history: the number of pairs
\* that were queued before this one.
RECURSIVE PushRules(_, _, _, _)
PushRules(stack, scope_level, rules, range) ==
  IF rules = <<>> THEN stack
  ELSE PushRules(push_front(stack,
                            [scope_query |-> get_scope_query(scope_level, range.start_byte,
                                                             range.end_byte),
                             rule |-> Head(rules),
                             seq |-> Len(stack)]),
                 scope_level, Tail(rules), range)

\* SourceCodeUnit::add_rules_to_stack, with the scope levels of the map visited in
\* the order `levels`
RECURSIVE add_rules_to_stack(_, _, _, _)
add_rules_to_stack(next_rules_by_scope, range, stack, levels) ==
  IF levels = <<>> THEN stack
  ELSE add_rules_to_stack(next_rules_by_scope, range,
                          PushRules(stack, Head(levels), next_rules_by_scope[Head(levels)],
                                    range),
                          Tail(levels))

\* The orders in which a HashMap may yield the scope levels.
LevelOrders == {<<"Method", "Class">>, <<"Class", "Method">>}

\* RuleStore::add_to_global_rules
add_to_global_rules(global_rules, rules) ==
  global_rules \o SelectSeq(rules, LAMBDA r : \A i \in 1..Len(global_rules) :
                                                 global_rules[i].name # r.name)

\* The text with every run of two or more blank lines cut down to one.
CollapseBlankLines(text) ==
  LET keep == {i \in 1..Len(text) :
                 ~(i >= 3 /\ text[i] = Newline /\ text[i - 1] = Newline
                   /\ text[i - 2] = Newline)}
  IN [j \in 1..Cardinality(keep) |->
        text[CHOOSE i \in keep : Cardinality({k \in keep : k <= i}) = j]]

\* SourceCodeUnit::perform_delete_consecutive_new_lines
perform_delete_consecutive_new_lines(u, args) ==
  IF args.delete_consecutive_new_lines
  THEN replace_file_contents_and_re_parse(u, CollapseBlankLines(u.code))
  ELSE u

(***************************************************************************)
(* The state of one run on one file.                                       *)
(***************************************************************************)
VARIABLES
  code,               \* SourceCodeUnit.code
  ast,                \* SourceCodeUnit.ast
  substitutions,      \* SourceCodeUnit.substitutions
  rewrites,           \* SourceCodeUnit.rewrites
  matches,            \* SourceCodeUnit.matches
  piranha_arguments,  \* SourceCodeUnit.piranha_arguments, with the rule graph
  global_rules,       \* RuleStore: the global (seed) rules
  seeds,              \* the rules handed to apply_rules
  stack,              \* the call stack of the engine, innermost call first
  panicked,           \* a panic! has aborted the run
  run,                \* which call of apply_rules on this unit (1 or 2)
  log                 \* history: the pushes to rewrites and the edits applied, in order

vars == <<code, ast, substitutions, rewrites, matches, piranha_arguments, global_rules,
          seeds, stack, panicked, run, log>>

\* Bounds of the model.
MaxRewrites == 6

MaxMatches == 6

MaxDepth == 8

(***************************************************************************)
(* The files and the configurations (arguments, rule graph and seed rules) *)
(* the run is started on.                                                  *)
(***************************************************************************)
Files ==
  { <<"(", "x", ",", "y", ")">>,
    <<"(", "x", ",", "y", ",", "z", ")">>,
    <<"(", "y", ",", "n", "y", ",", "n", "y", ")">>,
    <<"(", "(", "y", ")", ",", "x", ")">>,
    <<"(", "x", ",", "(", "y", ")", ")">>,
    <<"(", "(", "x", ",", "y", ")", ",", "z", ")">>,
    <<"(", "x", ",", "(", "x", ",", "z", ")", ")">>,
    <<"#", "n", "y", "n", "(", "x", ",", "y", ")">>,
    <<"y", "n", "n", "n", "z", "x">>,
    <<"(", ")", "y">>,
    <<"y", "n", "y">>,
    <<"#", "n", "x">> }

Args(edges, cleanup) ==
  [rule_graph |-> edges,
   input_substitutions |-> EmptyMap,
   global_tag_prefix |-> GlobalTagPrefix,
   cleanup_comments |-> cleanup,
   cleanup_comments_buffer |-> 2,
   delete_consecutive_new_lines |-> TRUE,
   number_of_ancestors_in_parent_scope |-> 4]

Config(seed_names, edges, cleanup) == [seeds |-> seed_names, args |-> Args(edges, cleanup)]

Configs ==
  { Config(<<"RX">>, <<Edge("RX", "RT", PARENT)>>, FALSE),
    Config(<<"RD">>, <<Edge("RD", "RE", PARENT)>>, FALSE),
    Config(<<"RD">>, <<Edge("RD", "RE", PARENT)>>, TRUE),
    Config(<<"MY">>, <<Edge("MY", "RD", "Method"), Edge("MY", "RX", "Class"),
                       Edge("MY", "RZ", GLOBAL)>>, FALSE),
    Config(<<"RX", "RZ">>, <<Edge("RZ", "RT", PARENT)>>, FALSE),
    Config(<<"RE", "MY">>, <<>>, FALSE),
    Config(<<"RX">>, <<Edge("RX", "RT", PARENT), Edge("RT", "RH", PARENT),
                       Edge("RX", "RD", GLOBAL), Edge("RT", "RZ", GLOBAL),
                       Edge("RH", "RE", GLOBAL)>>, FALSE),
    Config(<<"RX">>, <<Edge("RX", "RU", PARENT), Edge("RU", "RX", PARENT)>>, FALSE),
    Config(<<"RC">>, <<>>, FALSE),
    Config(<<"RK">>, <<>>, FALSE),
    Config(<<"RX", "RD">>, <<>>, TRUE),
    Config(<<"RX">>, <<Edge("RX", "RT", PARENT), Edge("RX", "RD", "Class")>>, FALSE),
    Config(<<"MY">>, <<Edge("MY", "MX", "Class"), Edge("MY", "RD", "Method")>>, FALSE) }

RECURSIVE InstantiateAll(_, _)
InstantiateAll(names, subs) ==
  IF names = <<>> THEN <<>>
  ELSE <<Instantiate(RuleDef(Head(names)), subs)>> \o InstantiateAll(Tail(names), subs)

(***************************************************************************)
(* Stack frames.  Every frame has the same fields; a call uses its own.    *)
(***************************************************************************)
NoRule == Rule("", QGroup(<<>>), FALSE, NoReplace, {}, <<>>)

NoRange == RangeAt(<<>>, 0, 0)

\* The fields seen, fired and base are history of a propagate frame: the
\* configurations in which the Parent loop has been at its head, the number of
\* Parent edits it has applied, and the length of rewrites before the edit that
\* propagate was called for.  The field own is history of an _apply_rule frame:
\* the indices of the entries of matches that this invocation has appended.
Frame(fn, pc, rule, scope_query, ms, range, current_rule, queue, rules, i) ==
  [fn |-> fn, pc |-> pc, rule |-> rule, scope_query |-> scope_query, ms |-> ms,
   range |-> range, current_rule |-> current_rule, next_rules_stack |-> queue,
   rules |-> rules, i |-> i, seen |-> {}, fired |-> 0, base |-> 0, own |-> <<>>]

\* apply_rules(rules, None), about to apply rules[i]
ApplyRulesFrame(rules, i) ==
  Frame("apply_rules", "for", NoRule, None, <<>>, NoRange, "", <<>>, rules, i)

\* apply_rule(rule, scope_query), at the head of its loop
ApplyRuleFrame(rule, scope_query) ==
  Frame("apply_rule", "loop", rule, scope_query, <<>>, NoRange, "", <<>>, <<>>, 0)

\* As MatchLoopFrame, but the for loop takes the matches last to first.
MatchLoopFrameReversed(rule, ms) ==
  Frame("_apply_rule", "for", rule, None, [k \in 1..Len(ms) |-> ms[Len(ms) + 1 - k]],
        NoRange, "", <<>>, <<>>, 0)

\* _apply_rule of a match-only rule, in its for loop over the matches ms
MatchLoopFrame(rule, ms) ==
  Frame("_apply_rule", "for", rule, None, ms, NoRange, "", <<>>, <<>>, 0)

\* propagate: in the Parent loop (pc = "loop") or applying the queued rules
PropagateFrame(pc, range, current_rule, queue) ==
  Frame("propagate", pc, NoRule, None, <<>>, range, current_rule, queue, <<>>, 0)

\* propagate, entered when rewrites had `base` entries
CallPropagate(range, current_rule, base) ==
  [PropagateFrame("loop", range, current_rule, <<>>) EXCEPT !.base = base]

\* What an iteration of the Parent loop reads: the text, the substitutions, the
\* current range and the current rule.
LoopHead(frame) ==
  [code |-> code, substitutions |-> substitutions, range |-> frame.range,
   current_rule |-> frame.current_rule]

Top == Head(stack)

Running == stack # <<>> /\ ~panicked

ThisUnit == Unit(code, ast, substitutions)

\* SourceCodeUnit::new, then apply_rules is called with the seed rules.
Init ==
  \E file \in Files, c \in Configs :
    /\ code = file
    /\ ast = Parse(file)
    /\ substitutions = c.args.input_substitutions
    /\ rewrites = <<>>
    /\ matches = <<>>
    /\ piranha_arguments = c.args
    /\ seeds = InstantiateAll(c.seeds, c.args.input_substitutions)
    /\ global_rules = InstantiateAll(c.seeds, c.args.input_substitutions)
    /\ stack = <<ApplyRulesFrame(InstantiateAll(c.seeds, c.args.input_substitutions), 1)>>
    /\ panicked = FALSE
    /\ run = 1
    /\ log = <<>>

(***************************************************************************)
(* The engine, one action per step.                                        *)
(***************************************************************************)
Pop == stack' = Tail(stack)

\* As RewriteSubstitutions, but the table is replaced by the captures of the edit.
RewriteSubstitutionsReset(subs, edit) == edit.p_match.matches

\* _apply_rule, lines 136-137: the captures of the edit enter the substitutions
RewriteSubstitutions(subs, edit) == Extend(subs, edit.p_match.matches)

\* _apply_rule, lines 160: the captures of the match enter the substitutions
MatchSubstitutions(subs, m) == Extend(subs, m.matches)

\* As ParentSubstitutions, but the captures of the Parent edit are left out.
ParentSubstitutionsSkipped(subs, edit) == subs

\* propagate, line 247: the captures of the Parent edit enter the substitutions
ParentSubstitutions(subs, edit) == Extend(subs, edit.p_match.matches)

\* As RecordMatchEffect, but the match is also pushed to rewrites as an identity edit.
RecordMatchAsRewrite(u, rw, m) ==
  [unit |-> [u EXCEPT !.substitutions = Extend(u.substitutions, m.matches)],
   rewrites |-> Append(rw, Edit(m, m.matched_string, ""))]

\* _apply_rule, lines 151-160: what recording the match m of a match-only rule
\* does to the unit and to rewrites: only the substitutions are extended.
RecordMatchEffect(u, rw, m) ==
  [unit |-> [u EXCEPT !.substitutions = MatchSubstitutions(u.substitutions, m)],
   rewrites |-> rw]

\* As LoopAgain, but apply_rule returns after the first call of _apply_rule.
LoopOnce(query_again, frames) == Tail(frames)

\* apply_rule, lines 93-97: the frames after _apply_rule returned query_again;
\* the loop goes on while it is true, and apply_rule returns when it is false.
LoopAgain(query_again, frames) == IF query_again THEN frames ELSE Tail(frames)

\* As MatchOnlyQueryAgain, but true when the pass has recorded a match.
MatchOnlyQueryAgainIfRecorded(own) == own # <<>>

\* _apply_rule, lines 123 and 165: query_again is false when the rule is
\* match-only, whatever the for loop has recorded.
MatchOnlyQueryAgain(own) == FALSE

\* As RecordAndApply, but the edit is applied before it is pushed to rewrites.
ApplyThenRecord(edit, events) == events \o <<Rec(edit)>>

\* iter().filter(..).map(..).collect() over the entries with the keys `keys`:
\* the entries whose key passes are inserted into a new map.
RECURSIVE FilterCollect(_, _, _)
FilterCollect(subs, keys, prefix) ==
  IF keys = {} THEN EmptyMap
  ELSE LET k == CHOOSE c \in keys : TRUE
       IN IF StartsWith(k, prefix)
          THEN Extend(FilterCollect(subs, keys \ {k}, prefix), Entry(k, subs[k]))
          ELSE FilterCollect(subs, keys \ {k}, prefix)

\* As global_substitutions, but a key passes when the prefix occurs anywhere in it.
global_substitutions_containing(u, args) ==
  [k \in {c \in DOMAIN u.substitutions :
            \E i \in 1..Len(c) : StartsWith(SubSeq(c, i, Len(c)), args.global_tag_prefix)}
     |-> u.substitutions[k]]

\* SourceCodeUnit::global_substitutions
global_substitutions(u, args) ==
  FilterCollect(u.substitutions, DOMAIN u.substitutions, args.global_tag_prefix)

\* As NextCurrentRule, but the current rule stays what it was.
NextCurrentRuleKept(current_rule, edit) == current_rule

\* propagate, line 245: the rule of the applied Parent edit becomes the current rule
NextCurrentRule(current_rule, edit) == edit.matched_rule

\* As SeedGlobalRules, but the Global successors are dropped.
SeedGlobalRulesSkipped(rules, next_rules_by_scope) == rules

\* propagate, lines 221-223: the Global successors become global rules
SeedGlobalRules(rules, next_rules_by_scope) ==
  add_to_global_rules(rules, next_rules_by_scope[GLOBAL])

\* The order of one edit's push to rewrites and its application (lines 133-140
\* and 233-243): the push comes first.
RecordAndApply(edit, events) == <<Rec(edit)>> \o events

\* As PushRewrite, but the edit is not pushed.
PushRewriteSkipped(rw, edit) == rw

\* _apply_rule, line 133, and propagate, line 233: the edit is pushed to rewrites
PushRewrite(rw, edit) == Append(rw, edit)

\* apply_rules: the for loop takes the next rule and calls apply_rule.
StartNextRule ==
  /\ Running /\ Top.fn = "apply_rules" /\ Top.i <= Len(Top.rules)
  /\ stack' = <<ApplyRuleFrame(Top.rules[Top.i], None), [Top EXCEPT !.i = Top.i + 1]>>
               \o Tail(stack)
  /\ UNCHANGED <<code, ast, substitutions, rewrites, matches, piranha_arguments,
                 global_rules, seeds, panicked, run, log>>

\* apply_rules: after the last rule, perform_delete_consecutive_new_lines; return.
FinishApplyRules ==
  /\ Running /\ Top.fn = "apply_rules" /\ Top.i > Len(Top.rules)
  /\ \E u \in {perform_delete_consecutive_new_lines(ThisUnit, piranha_arguments)} :
       code' = u.code /\ ast' = u.ast
  /\ Pop
  /\ UNCHANGED <<substitutions, rewrites, matches, piranha_arguments, global_rules,
                 seeds, panicked, run, log>>

\* apply_rule / _apply_rule on a rewrite rule: one iteration of the loop.  With an
\* edit: record it, extend the substitutions, apply it, call propagate.  Without:
\* _apply_rule returns false and apply_rule returns.
ApplyRewrite ==
  /\ Running /\ Top.fn = "apply_rule" /\ ~is_match_only_rule(Top.rule)
  /\ \E edit \in {get_edit(ThisUnit, Top.rule, get_scope_node(ThisUnit, Top.scope_query),
                            TRUE, piranha_arguments.input_substitutions)} :
        IF IsSome(edit)
        THEN /\ Len(rewrites) < MaxRewrites /\ Len(stack) < MaxDepth
             /\ \E r \in {apply_edit(Unit(code, ast,
                                          RewriteSubstitutions(substitutions, edit[1])),
                                     edit[1], piranha_arguments)} :
                   /\ rewrites' = PushRewrite(rewrites, edit[1])
                                     \o EditsOf(r.events, "record")
                   /\ substitutions' = r.unit.substitutions
                   /\ code' = r.unit.code
                   /\ ast' = r.unit.ast
                   /\ log' = log \o RecordAndApply(edit[1], r.events)
                   /\ panicked' = r.panic
                   /\ stack' = IF r.panic THEN stack
                               ELSE <<CallPropagate(get_replace_range(r.ts_edit),
                                                    Top.rule.name, Len(rewrites))>>
                                    \o LoopAgain(TRUE, stack)
        ELSE /\ stack' = LoopAgain(FALSE, stack)
             /\ UNCHANGED <<code, ast, substitutions, rewrites, log, panicked>>
  /\ UNCHANGED <<matches, piranha_arguments, global_rules, seeds, run>>

\* apply_rule / _apply_rule on a match-only rule: all the matches are taken once.
ApplyMatchOnly ==
  /\ Running /\ Top.fn = "apply_rule" /\ is_match_only_rule(Top.rule)
  /\ stack' = <<[MatchLoopFrame(Top.rule,
                                 get_matches(ThisUnit, Top.rule,
                                             get_scope_node(ThisUnit, Top.scope_query), TRUE,
                                             piranha_arguments.input_substitutions))
                   EXCEPT !.scope_query = Top.scope_query]>>
               \o Tail(stack)
  /\ UNCHANGED <<code, ast, substitutions, rewrites, matches, piranha_arguments,
                 global_rules, seeds, panicked, run, log>>

\* _apply_rule, the for loop of a match-only rule: record the next match, extend
\* the substitutions, call propagate with the range of the match; after the last
\* match _apply_rule returns false and apply_rule returns.
RecordMatch ==
  /\ Running /\ Top.fn = "_apply_rule"
  /\ IF Top.ms # <<>>
     THEN \E m \in {Head(Top.ms)} :
           \E r \in {RecordMatchEffect(ThisUnit, rewrites, m)} :
             /\ Len(matches) < MaxMatches /\ Len(stack) < MaxDepth
             /\ matches' = Append(matches, <<Top.rule.name, m>>)
             /\ substitutions' = r.unit.substitutions
             /\ code' = r.unit.code
             /\ ast' = r.unit.ast
             /\ rewrites' = r.rewrites
             /\ stack' = <<CallPropagate(m.range, Top.rule.name, Len(rewrites)),
                           [Top EXCEPT !.ms = Tail(Top.ms),
                                       !.own = Append(Top.own, Len(matches) + 1)]>>
                         \o Tail(stack)
     ELSE /\ stack' = LoopAgain(MatchOnlyQueryAgain(Top.own),
                                <<ApplyRuleFrame(Top.rule, Top.scope_query)>> \o Tail(stack))
          /\ UNCHANGED <<matches, substitutions, code, ast, rewrites>>
  /\ UNCHANGED <<piranha_arguments, global_rules, seeds, panicked, run, log>>

\* propagate: one iteration of the Parent loop.
PropagateParent ==
  /\ Running /\ Top.fn = "propagate" /\ Top.pc = "loop"
  /\ \E levels \in LevelOrders,
        next_rules_by_scope \in {get_next(piranha_arguments.rule_graph, Top.current_rule,
                                          substitutions)} :
      \E queue \in {add_rules_to_stack(next_rules_by_scope, Top.range,
                                        Top.next_rules_stack, levels)},
         edit \in {get_edit_for_context(ThisUnit, Top.range.start_byte, Top.range.end_byte,
                                        next_rules_by_scope[PARENT], piranha_arguments)} :
          /\ global_rules' = SeedGlobalRules(global_rules, next_rules_by_scope)
          /\ IF IsSome(edit)
             THEN /\ Len(rewrites) < MaxRewrites
                  /\ \E r \in {apply_edit(ThisUnit, edit[1], piranha_arguments)} :
                        /\ rewrites' = PushRewrite(rewrites, edit[1])
                                     \o EditsOf(r.events, "record")
                        /\ code' = r.unit.code
                        /\ ast' = r.unit.ast
                        /\ log' = log \o RecordAndApply(edit[1], r.events)
                        /\ panicked' = r.panic
                        /\ substitutions' = IF r.panic THEN substitutions
                                            ELSE ParentSubstitutions(substitutions, edit[1])
                        /\ stack' = <<[Top EXCEPT
                                         !.range = IF r.panic THEN Top.range
                                                   ELSE get_replace_range(r.ts_edit),
                                         !.current_rule = IF r.panic THEN Top.current_rule
                                                          ELSE NextCurrentRule(
                                                                 Top.current_rule, edit[1]),
                                         !.next_rules_stack = queue,
                                         !.seen = Top.seen \cup {LoopHead(Top)},
                                         !.fired = IF r.panic THEN Top.fired
                                                   ELSE Top.fired + 1]>>
                                    \o Tail(stack)
             ELSE /\ stack' = <<[Top EXCEPT !.pc = "stack", !.next_rules_stack = queue]>>
                              \o Tail(stack)
                  /\ UNCHANGED <<code, ast, substitutions, rewrites, log, panicked>>
  /\ UNCHANGED <<matches, piranha_arguments, seeds, run>>

\* propagate, after the Parent loop: the queued rules are applied front to back.
PropagateQueue ==
  /\ Running /\ Top.fn = "propagate" /\ Top.pc = "stack"
  /\ IF Top.next_rules_stack # <<>>
     THEN /\ Len(stack) < MaxDepth
          /\ \E next \in {Head(Top.next_rules_stack)} :
                stack' = <<ApplyRuleFrame(next.rule, Some(next.scope_query)),
                           [Top EXCEPT !.next_rules_stack = Tail(Top.next_rules_stack)]>>
                         \o Tail(stack)
     ELSE Pop
  /\ UNCHANGED <<code, ast, substitutions, rewrites, matches, piranha_arguments,
                 global_rules, seeds, panicked, run, log>>

\* The caller applies the same seed rules to the transformed unit once more.
ApplyRulesAgain ==
  /\ stack = <<>> /\ ~panicked /\ run = 1
  /\ run' = 2
  /\ stack' = <<ApplyRulesFrame(seeds, 1)>>
  /\ UNCHANGED <<code, ast, substitutions, rewrites, matches, piranha_arguments,
                 global_rules, seeds, panicked, log>>

Next ==
  \/ StartNextRule
  \/ FinishApplyRules
  \/ ApplyRewrite
  \/ ApplyMatchOnly
  \/ RecordMatch
  \/ PropagateParent
  \/ PropagateQueue
  \/ ApplyRulesAgain

Spec == Init /\ [][Next]_vars

(***************************************************************************)
(* The properties of the engine.                                           *)
(***************************************************************************)
Keys(map) == DOMAIN map

RuleOf(i) == rewrites[i].matched_rule

\* C1: no step of the engine removes a key from substitutions: the key set never
\* shrinks (values may be overwritten).
C1_SubstitutionsNeverShrink == [][Keys(substitutions) \subseteq Keys(substitutions')]_vars

\* A rewrite and a Parent-scoped edit have both extended the substitutions.
C1_Witness ==
  /\ {CapA, CapB} \subseteq Keys(substitutions)
  /\ \E i \in 1..Len(rewrites) : RuleOf(i) = "RT"
  /\ \E i \in 1..Len(rewrites) : RuleOf(i) = "RX" /\ i > 1

\* C2: between the steps of a run every capture name of every edit in rewrites is
\* a key of substitutions, for the edits of _apply_rule and for those of propagate.
C2_RewriteCapturesBound ==
  ~panicked => \A i \in 1..Len(rewrites) :
                 Keys(rewrites[i].p_match.matches) \subseteq Keys(substitutions)

\* propagate has recorded and applied a Parent-scoped edit with a capture of its own.
C2_Witness ==
  /\ ~panicked
  /\ \E i \in 1..Len(rewrites) : RuleOf(i) = "RT" /\ CapB \in Keys(rewrites[i].p_match.matches)

\* _apply_rule of a match-only rule is running: its for loop, or the propagation
\* of one of its matches.
InMatchOnlyRule == \E i \in 1..Len(stack) : stack[i].fn = "_apply_rule"

\* C3 as stated: while _apply_rule runs on a match-only rule, the propagation of
\* its matches included, code, tree and rewrites stay as they are.
C3_MatchOnlyFrameWithPropagation ==
  [][InMatchOnlyRule => UNCHANGED <<code, ast, rewrites>>]_vars

\* C3, amended: the steps of the match-only rule itself (taking its matches,
\* recording one, returning) leave code, tree and rewrites as they are; the
\* rules that propagate applies for a match are not covered.
C3_MatchOnlyStepFrame ==
  [][(Running /\ Top.fn \in {"apply_rule", "_apply_rule"} /\ ~Top.rule.replace_node)
       => UNCHANGED <<code, ast, rewrites>>]_vars

\* A match-only rule has recorded a match and nothing has been rewritten.
C3_Witness ==
  /\ matches # <<>> /\ rewrites = <<>>
  /\ Running /\ Top.fn = "propagate"
  /\ CapGm \in Keys(substitutions)

\* C4 as stated: the second apply_rules with the same seed rules appends nothing
\* to rewrites and nothing to matches.
C4_SecondRunAddsNothing ==
  [][run = 2 => (rewrites' = rewrites /\ matches' = matches)]_vars

SingleRewriteSeed == Len(seeds) = 1 /\ ~is_match_only_rule(seeds[1])

\* C4, amended: with a single seed rule that is a rewrite rule, the second
\* apply_rules appends nothing to rewrites and nothing to matches.
C4_SecondRunOfOneRewriteSeed ==
  [][(run = 2 /\ SingleRewriteSeed) => (rewrites' = rewrites /\ matches' = matches)]_vars

\* The second run of a single rewrite seed has returned, after a first run that
\* rewrote more than once.
C4_Witness ==
  /\ run = 2 /\ stack = <<>> /\ ~panicked
  /\ SingleRewriteSeed /\ Len(rewrites) >= 2

\* The rule has a constraint-passing match under the root of the unit.
Triggers(rule) ==
  IsSome(get_edit(ThisUnit, rule, TreeRoot(ast.nodes), TRUE,
                  piranha_arguments.input_substitutions))

C6_RewritesInApplicationOrder ==
  /\ EditsOf(log, "record") = rewrites
  /\ \A j \in 1..Len(log) :
       log[j].ev = "record"
         => /\ j < Len(log)
            /\ log[j + 1].ev = "apply"
            /\ log[j + 1].edit.matched_rule = log[j].edit.matched_rule
            /\ log[j + 1].edit.p_match.matches = log[j].edit.p_match.matches
  /\ log # <<>> => log[1].ev = "record"

\* A seed rewrite was followed by a Parent-scoped edit and by another rewrite of
\* the seed rule.
C6_Witness ==
  /\ Len(rewrites) >= 3
  /\ RuleOf(1) = "RX" /\ RuleOf(2) = "RT" /\ RuleOf(3) = "RX"

\* C7: when apply_edit has returned normally the tree has no error node; a tree
\* with an error after an edit is a panic, and after a panic nothing runs.
C7_ValidityGate ==
  /\ [](panicked <=> ast.err)
  /\ [][~panicked]_vars

\* The re-parse after an edit found an error and the run was aborted.
C7_Witness == panicked /\ ast.err /\ stack # <<>> /\ rewrites # <<>>

\* C8: between steps the tree is the parse of the current text.
C8_TreeIsParseOfText == ast = Parse(code)

\* An edit and the deletion of its comment have replaced the text and the tree.
C8_Witness ==
  /\ ~panicked
  /\ \E j \in 1..Len(log) : log[j].ev = "apply" /\ log[j].edit.matched_rule = "Delete Range"

\* Index of the nearest token before the token range (s, e] / after it that is
\* not whitespace, 0 if there is none.
TokenBefore(s) ==
  LET S == {k \in 1..s : code[k] # Newline} IN IF S = {} THEN 0 ELSE Max(S)

TokenAfter(e) ==
  LET S == {k \in (e + 1)..Len(code) : code[k] # Newline} IN IF S = {} THEN 0 ELSE Min(S)

IsCommaAt(k) == k # 0 /\ code[k] = Comma

\* The delete edit of the node n of the current tree.
DeleteOf(n) ==
  Edit(Match(NodeText(code, n), NodeRange(code, n), Entry(CapD, NodeText(code, n))),
       <<>>, "RD")

\* C9: for a delete edit between two commas delete_trailing_comma widens the
\* range by the trailing comma only; the leading comma is absorbed only when no
\* trailing comma follows; captures, replacement and rule name are kept.
C9_TrailingCommaPreferred ==
  ~ast.err =>
    \A n \in {m \in ast.nodes : m.kind \in {"atom", "group"}} :
      LET w == delete_trailing_comma(ThisUnit, DeleteOf(n))
          p == TokenBefore(n.start_byte)
          q == TokenAfter(n.end_byte)
      IN /\ (IsCommaAt(p) /\ IsCommaAt(q))
              => /\ w.p_match.range.start_byte = n.start_byte
                 /\ w.p_match.range.start_point = PointAt(code, n.start_byte)
                 /\ w.p_match.range.end_byte = q
                 /\ w.p_match.range.end_point = PointAt(code, q)
         /\ w.p_match.range.start_byte < n.start_byte => ~IsCommaAt(q)
         /\ w.p_match.matches = DeleteOf(n).p_match.matches
         /\ w.replacement_string = DeleteOf(n).replacement_string
         /\ w.matched_rule = DeleteOf(n).matched_rule

\* The y of (x,y,z), between two commas, was deleted with the comma after it.
C9_Witness ==
  /\ code = <<"(", "x", ",", "z", ")">>
  /\ \E j \in 1..(Len(log) - 1) :
       /\ log[j].ev = "record" /\ log[j].edit.p_match.range.start_byte = 3
       /\ log[j + 1].ev = "apply"
       /\ log[j + 1].edit.p_match.matched_string = <<"y", ",">>

\* C10: the edit in rewrites carries the range that was deleted, the absorbed
\* comma included.
C10_RecordedRangeIsWidened ==
  \A j \in 1..(Len(log) - 1) :
    (log[j].ev = "record" /\ log[j + 1].ev = "apply")
      => log[j].edit.p_match.range = log[j + 1].edit.p_match.range

IsCommentDeletion(edit) == edit.matched_rule = "Delete Range"

Names(rules) == {rules[i].name : i \in 1..Len(rules)}

Edges == {piranha_arguments.rule_graph[i] : i \in 1..Len(piranha_arguments.rule_graph)}

\* The rules reachable from the rules of S over edges that are not Global.
RECURSIVE LocalClosure(_)
LocalClosure(S) ==
  LET T == S \cup {e.to : e \in {d \in Edges : d.from \in S /\ d.scope # GLOBAL}}
  IN IF T = S THEN S ELSE LocalClosure(T)

\* The rules that have been applied to the file or are being applied.
RulesApplied ==
  {rewrites[i].matched_rule : i \in {k \in 1..Len(rewrites) : ~IsCommentDeletion(rewrites[k])}}
    \cup {matches[i][1] : i \in 1..Len(matches)}
    \cup {stack[i].rule.name : i \in {k \in 1..Len(stack) :
                                        stack[k].fn \in {"apply_rule", "_apply_rule"}}}

\* C12: the successors over Global edges become global rules in every iteration
\* of the Parent loop, that of the last also, stay global rules, and are not
\* applied to the file by the running apply_rules.
C12_GlobalSuccessorsSeededNotApplied ==
  /\ [](run = 1 => RulesApplied \subseteq LocalClosure(Names(seeds)))
  /\ [][(Running /\ Top.fn = "propagate" /\ Top.pc = "loop")
          => \A e \in Edges :
               (e.from = Top.current_rule /\ e.scope = GLOBAL
                  /\ RuleDef(e.to).holes \subseteq Keys(substitutions))
                 => e.to \in Names(global_rules')]_vars
  /\ [][Names(global_rules) \subseteq Names(global_rules')]_vars

\* The Global successors of the seed rule and of two rules of its Parent chain
\* are global rules, and only the rules of the chain have rewritten.
C12_Witness ==
  /\ {"RD", "RZ", "RE"} \subseteq Names(global_rules)
  /\ [i \in 1..Len(rewrites) |-> RuleOf(i)] = <<"RX", "RT", "RH">>
  /\ Running /\ Top.fn = "propagate" /\ Top.pc = "stack"

\* A step that enters apply_rule with a scope query, that is, for a queued pair.
StartsQueuedRule ==
  /\ stack # <<>> /\ stack' # <<>>
  /\ Len(stack') = Len(stack) + 1
  /\ Head(stack').fn = "apply_rule" /\ IsSome(Head(stack').scope_query)

\* C13: no frame is above a propagate frame that is in its Parent loop, the loop
\* only adds pairs to the queue, and a queued pair is applied after the loop, the
\* pair applied being the one queued last of those that are left.
C13_QueuedAfterParentLoopNewestFirst ==
  /\ [](\A i \in 1..Len(stack) :
          (stack[i].fn = "propagate" /\ stack[i].pc = "loop") => i = 1)
  /\ [][(Running /\ Top.fn = "propagate" /\ Top.pc = "loop" /\ stack' # <<>>
           /\ Head(stack').fn = "propagate")
          => \E k \in 0..Len(Head(stack').next_rules_stack) :
               SubSeq(Head(stack').next_rules_stack, k + 1,
                      Len(Head(stack').next_rules_stack)) = Top.next_rules_stack]_vars
  /\ [][StartsQueuedRule
          => /\ Top.fn = "propagate" /\ Top.pc = "stack" /\ Top.next_rules_stack # <<>>
             /\ \E j \in 1..Len(Top.next_rules_stack) :
                  /\ Head(stack').rule = Top.next_rules_stack[j].rule
                  /\ Head(stack').scope_query = Some(Top.next_rules_stack[j].scope_query)
                  /\ \A k \in 1..Len(Top.next_rules_stack) :
                       Top.next_rules_stack[k].seq <= Top.next_rules_stack[j].seq
                  /\ stack'[2].next_rules_stack
                       = [k \in 1..(Len(Top.next_rules_stack) - 1) |->
                            Top.next_rules_stack[IF k < j THEN k ELSE k + 1]]]_vars

\* A queued rule is being applied while a pair that was queued before it waits.
C13_Witness ==
  /\ Running /\ Len(stack) >= 2
  /\ Top.fn = "apply_rule" /\ IsSome(Top.scope_query)
  /\ stack[2].fn = "propagate" /\ stack[2].pc = "stack"
  /\ stack[2].next_rules_stack # <<>>
  /\ Top.rule.name # stack[2].next_rules_stack[1].rule.name

\* C14: in every iteration of the Parent loop the queue that add_rules_to_stack
\* builds is the same for every order in which the map of get_next yields its
\* scope levels, so the queued successors are applied in one order only.
C14_QueueIndependentOfMapOrder ==
  (Running /\ Top.fn = "propagate" /\ Top.pc = "loop")
    => \A l1 \in LevelOrders, l2 \in LevelOrders :
         add_rules_to_stack(get_next(piranha_arguments.rule_graph, Top.current_rule,
                                     substitutions),
                            Top.range, Top.next_rules_stack, l1)
           = add_rules_to_stack(get_next(piranha_arguments.rule_graph, Top.current_rule,
                                         substitutions),
                                Top.range, Top.next_rules_stack, l2)

\* C15: the Parent loop of propagate is never at its head twice with the same
\* text, substitutions, current range and current rule; an iteration reads
\* nothing else, so a loop that returns to a configuration repeats for ever.
C15_ParentLoopNeverRevisits ==
  (Running /\ Top.fn = "propagate" /\ Top.pc = "loop") => LoopHead(Top) \notin Top.seen

\* The constraints over which C16 is stated, besides those of the rules: a
\* matcher that is any group, one that is a group (x,B), one that matches no
\* parent, and one with a hole; with none, one and two forbidden queries.
TestConstraints ==
  { Constraint(QGroup(CapE), <<>>),
    Constraint(QGroup(CapE), <<QAtom(<<"z">>, CapA)>>),
    Constraint(QGroup(CapE), <<QAtom(<<"t">>, CapA), QEmpty(CapE)>>),
    Constraint(QCond(<<"x">>, CapB), <<QAtom(<<"y">>, CapA)>>),
    Constraint(QAtom(<<"x">>, CapA), <<>>),
    Constraint(QGroup(CapE), <<QHole(CapA, CapD)>>) }

TestConstraintLists ==
  {<<>>} \cup {<<c>> : c \in TestConstraints}
         \cup {<<Constraint(QGroup(CapE), <<QAtom(<<"z">>, CapA)>>), d>> :
                  d \in {Constraint(QGroup(CapE), <<>>),
                         Constraint(QAtom(<<"x">>, CapA), <<>>),
                         Constraint(QCond(<<"x">>, CapB), <<QAtom(<<"y">>, CapA)>>)}}

\* The nodes that a query of the rules can match: is_satisfied is called on these.
MatchableNodes == {n \in ast.nodes : n.kind \in {"atom", "group"}}

TestRule(constraints) == Rule("", QGroup(<<>>), FALSE, NoReplace, {}, constraints)

\* Whether the query, its holes filled, matches at node n.
MatchesAt(q, n) == Matches(ast.nodes, code, substitute_tags(q, substitutions), n)

\* The constraint passes at node n when the nodes consulted are those of W: the
\* nearest node of W that matches the matcher exists, and no forbidden query
\* matches in its subtree.
PassesOver(W, constraint) ==
  LET M == {p \in W : MatchesAt(constraint.matcher, p)}
  IN /\ M # {}
     /\ LET scope == CHOOSE p \in M : \A q \in M : Size(p) <= Size(q)
        IN \A i \in 1..Len(constraint.queries) :
             \A d \in Subtree(ast.nodes, scope) : ~MatchesAt(constraint.queries[i], d)

\* The nodes that the walk from n consults: the ancestors of n, and n itself
\* when it has children.
Walked(n) ==
  Ancestors(ast.nodes, n) \cup (IF ChildCount(ast.nodes, n) > 0 THEN {n} ELSE {})

\* C16 as stated: the nodes consulted are the ancestors of the node.
C16_NearestAncestorDecides ==
  \A n \in MatchableNodes, cs \in TestConstraintLists :
    is_satisfied(ThisUnit, n, TestRule(cs), substitutions, EmptyMap)
      <=> \A i \in 1..Len(cs) : PassesOver(Ancestors(ast.nodes, n), cs[i])

\* C16, amended: is_satisfied is true iff every constraint passes, the nodes
\* consulted being the node itself, when it has children, and its ancestors,
\* nearest first; the first that matches the matcher decides alone, none
\* matching fails the constraint, and no constraints is satisfied.
C16_NearestWalkedNodeDecides ==
  \A n \in MatchableNodes, cs \in TestConstraintLists :
    is_satisfied(ThisUnit, n, TestRule(cs), substitutions, EmptyMap)
      <=> \A i \in 1..Len(cs) : PassesOver(Walked(n), cs[i])

\* RK has rewritten a group that has no group around it: the group itself was
\* the scope of the constraint.
C16_Witness ==
  /\ Len(rewrites) = 1 /\ RuleOf(1) = "RK"
  /\ rewrites[1].p_match.range.start_byte = 0
  /\ rewrites[1].p_match.matched_string = <<"(", "x", ",", "y", ")">>
  /\ code = <<"y">>

HasPrefix(key, prefix) ==
  /\ Len(prefix) <= Len(key)
  /\ \A i \in 1..Len(prefix) : key[i] = prefix[i]

\* C18: in every state the map returned by global_substitutions has exactly the
\* keys of substitutions that begin with the global tag prefix, each with the
\* value it has in substitutions.
C18_GlobalSubstitutionsArePrefixedEntries ==
  LET exported == global_substitutions(ThisUnit, piranha_arguments)
  IN /\ DOMAIN exported
          = {k \in DOMAIN substitutions : HasPrefix(k, piranha_arguments.global_tag_prefix)}
     /\ \A k \in DOMAIN exported : exported[k] = substitutions[k]

\* The substitutions hold a key that begins with the prefix, one that holds the
\* prefix elsewhere and one without it; only the first is exported.
C18_Witness ==
  /\ {CapGm, CapMG, CapD} \subseteq DOMAIN substitutions
  /\ DOMAIN global_substitutions(ThisUnit, piranha_arguments) = {CapGm}
  /\ global_substitutions(ThisUnit, piranha_arguments)[CapGm] = <<"y">>

\* The distances that min_by compares in the two lookups for the edit: those of
\* the nodes that passed the filter, when there are two at least.
DistancesCompared(edit) ==
  LET tn == trailing_nodes(ThisUnit, edit)
      ln == leading_nodes(ThisUnit, edit)
  IN {trailing_distance(ThisUnit, edit)[tn[i]] : i \in {k \in 1..Len(tn) : Len(tn) >= 2}}
       \cup {leading_distance(ThisUnit, edit)[ln[i]] : i \in {k \in 1..Len(ln) : Len(ln) >= 2}}

\* C19: for the delete edit of a node of the tree that starts at byte 0 the
\* leading lookup asks for a range that does not end below 0 and finds no
\* comma; for one that ends where the file ends the trailing lookup finds no
\* comma; and no distance compared in a lookup is negative, for any node.
C19_CommaLookupAtFileBoundaries ==
  \A n \in MatchableNodes :
    /\ n.start_byte = 0
         => /\ leading_lookup_end(DeleteOf(n).p_match.range.start_byte) >= 0
            /\ get_leading_comma(ThisUnit, DeleteOf(n)) = None
    /\ n.end_byte = Len(code) => get_trailing_comma(ThisUnit, DeleteOf(n)) = None
    /\ \A d \in DistancesCompared(DeleteOf(n)) : d >= 0

\* The engine has deleted an atom that started at byte 0 and then an atom that
\* ended at the end of the file, neither with a comma.
C19_Witness ==
  /\ Len(rewrites) = 2 /\ RuleOf(1) = "RD" /\ RuleOf(2) = "RD"
  /\ rewrites[1].p_match.range.start_byte = 0
  /\ rewrites[2].p_match.range.end_byte = Len(code) + 1
  /\ code = <<"n">>
  /\ ~panicked

\* A step of the Parent loop in which a Parent successor fires.
ParentFires ==
  /\ Running /\ Top.fn = "propagate" /\ Top.pc = "loop"
  /\ Len(rewrites') > Len(rewrites) /\ ~panicked'

\* The entries of rewrites after the first `base` that delete a comment.
CommentDeletionsAfter(base) ==
  Cardinality({i \in (base + 1)..Len(rewrites) : IsCommentDeletion(rewrites[i])})

\* C20: when a Parent successor fires, its edit is the next entry of rewrites,
\* the rule is a Parent successor of the current rule whose holes the
\* substitutions fill, the text has the replacement where the new current range
\* is, the current rule becomes the fired rule and the captures of the edit are
\* added to the substitutions; the loop adds one entry for each firing to the
\* entry of the edit that propagate was called for, and none when it exits.
C20_ParentFiringStep ==
  /\ [][ParentFires =>
          LET e == rewrites'[Len(rewrites) + 1]
              r == Head(stack').range
          IN /\ SubSeq(rewrites', 1, Len(rewrites)) = rewrites
             /\ \A i \in (Len(rewrites) + 2)..Len(rewrites') : IsCommentDeletion(rewrites'[i])
             /\ \E d \in Edges : /\ d.from = Top.current_rule /\ d.scope = PARENT
                                 /\ d.to = e.matched_rule
             /\ RuleDef(e.matched_rule).holes \subseteq DOMAIN substitutions
             /\ Head(stack').current_rule = e.matched_rule
             /\ Head(stack').fired = Top.fired + 1
             /\ r.start_byte <= e.p_match.range.start_byte
             /\ r.end_byte = r.start_byte + Len(e.replacement_string)
             /\ (~is_delete(e) => r.start_byte = e.p_match.range.start_byte)
             /\ (Len(rewrites') = Len(rewrites) + 1 =>
                   /\ SubSeq(code', 1, r.start_byte) = SubSeq(code, 1, r.start_byte)
                   /\ SubSeq(code', r.start_byte + 1, r.end_byte) = e.replacement_string)
             /\ DOMAIN substitutions' = DOMAIN substitutions \cup DOMAIN e.p_match.matches
             /\ \A k \in DOMAIN e.p_match.matches : substitutions'[k] = e.p_match.matches[k]
             /\ \A k \in DOMAIN substitutions \ DOMAIN e.p_match.matches :
                  substitutions'[k] = substitutions[k]]_vars
  /\ [][(Running /\ Top.fn = "propagate" /\ Top.pc = "loop"
           /\ stack' # <<>> /\ Head(stack').pc = "stack")
          => rewrites' = rewrites /\ Head(stack').fired = Top.fired]_vars
  /\ [](Running /\ Top.fn = "propagate" /\ Top.pc = "loop" /\ Len(stack) >= 2
          => Len(rewrites) = Top.base + Top.fired + CommentDeletionsAfter(Top.base)
                               + (IF stack[2].fn = "apply_rule" THEN 1 ELSE 0))

\* After the rewrite of RX its Parent successor RT has fired and then RH, a
\* successor of RT only, whose hole is the capture b of RT's edit.
C20_Witness ==
  /\ Running /\ Top.fn = "propagate" /\ Top.fired = 2 /\ Top.base = 0
  /\ Top.current_rule = "RH"
  /\ [i \in 1..Len(rewrites) |-> RuleOf(i)] = <<"RX", "RT", "RH">>
  /\ CapB \in DOMAIN substitutions /\ substitutions[CapB] = <<"y">>
  /\ code = <<"z">>

\* C21: a step of apply_rule on a rewrite rule takes the first edit of the rule
\* in the scope as it is found in the present tree; with an edit it records it
\* and stays in its loop below propagate, without one it returns and changes
\* nothing.  On a match-only rule apply_rule takes the matches once, and when
\* the last is recorded it returns to its caller, however many were recorded.
C21_RewriteLoopsMatchOnlyOnce ==
  /\ [][(Running /\ Top.fn = "apply_rule" /\ ~is_match_only_rule(Top.rule))
          => LET e == get_edit(ThisUnit, Top.rule,
                               get_scope_node(ThisUnit, Top.scope_query), TRUE,
                               piranha_arguments.input_substitutions)
             IN IF IsSome(e)
                THEN /\ Len(rewrites') > Len(rewrites)
                     /\ rewrites'[Len(rewrites) + 1] = e[1]
                     /\ \/ panicked'
                        \/ /\ Head(stack').fn = "propagate" /\ Tail(stack') = stack
                ELSE /\ stack' = Tail(stack)
                     /\ rewrites' = rewrites /\ code' = code /\ matches' = matches]_vars
  /\ [][(Running /\ Top.fn = "apply_rule" /\ is_match_only_rule(Top.rule))
          => /\ Head(stack').fn = "_apply_rule" /\ Tail(stack') = Tail(stack)
             /\ Head(stack').own = <<>>
             /\ Head(stack').ms
                  = get_matches(ThisUnit, Top.rule,
                                get_scope_node(ThisUnit, Top.scope_query), TRUE,
                                piranha_arguments.input_substitutions)
             /\ matches' = matches /\ rewrites' = rewrites]_vars
  /\ [][(Running /\ Top.fn = "_apply_rule" /\ Top.ms = <<>>)
          => stack' = Tail(stack) /\ matches' = matches /\ rewrites' = rewrites]_vars
  /\ [](\A i \in 1..Len(stack) :
          stack[i].fn = "_apply_rule"
            => i < Len(stack) /\ stack[i + 1].fn \in {"apply_rules", "propagate"})

\* The match-only seed rule has recorded three matches in its one pass and has
\* returned; the rewrite rule queued by its first match has deleted three atoms,
\* one in each iteration of its loop.
C21_Witness ==
  /\ run = 1 /\ Running /\ Top.fn = "apply_rules" /\ Top.i > Len(Top.rules)
  /\ [i \in 1..Len(matches) |-> matches[i][1]] = <<"MY", "MY", "MY">>
  /\ [i \in 1..Len(rewrites) |-> RuleOf(i)] = <<"RD", "RD", "RD">>

\* A step in which apply_edit is called: an edit is pushed to rewrites.
EditStep == Running /\ Len(rewrites') > Len(rewrites)

\* C22: in a step that applies the edit e, comment deletions follow e in
\* rewrites only when e is a delete, cleanup_comments is set and the text with
\* e applied parses without an error; an error stops the step with that text.
\* With a comment deleted the range given to propagate is the replacement range
\* of the comment's deletion in the text with e applied, and not that of e;
\* otherwise it is the replacement range of e, comma-widened when e is a delete.
C22_CommentCleanupAndReturnedEdit ==
  [][EditStep =>
       \E e \in {rewrites'[Len(rewrites) + 1]}, n \in {Len(rewrites') - Len(rewrites) - 1} :
       \E w \in {IF is_delete(e) THEN delete_trailing_comma(ThisUnit, e) ELSE e} :
       \E t \in {get_tree_sitter_edit(code, w)} :
       \E u1 \in {Unit(t.new_source_code, Parse(t.new_source_code), substitutions')} :
          /\ \A i \in (Len(rewrites) + 2)..Len(rewrites') : IsCommentDeletion(rewrites'[i])
          /\ n > 0 => /\ is_delete(e) /\ piranha_arguments.cleanup_comments
                      /\ ~u1.ast.err
          /\ u1.ast.err => panicked' /\ n = 0 /\ code' = u1.code
          /\ ~panicked' =>
               /\ Head(stack').fn = "propagate"
               /\ IF n = 0
                  THEN /\ Head(stack').range = get_replace_range(t.ts_edit)
                       /\ code' = u1.code
                  ELSE \E c \in {rewrites'[Len(rewrites')]} :
                          /\ Head(stack').range # get_replace_range(t.ts_edit)
                          /\ Head(stack').range.end_byte = Head(stack').range.start_byte
                          /\ Head(stack').range.start_byte <= c.p_match.range.start_byte
                          /\ n = 1 =>
                               Head(stack').range
                                 = get_replace_range(
                                     get_tree_sitter_edit(u1.code,
                                                          delete_trailing_comma(u1, c)).ts_edit)]_vars

\* With cleanup_comments set, the rewrite of the x under the comment line has
\* left the comment, and the deletion of the y under the comment line of another
\* text has removed it: propagate holds the range of the comment's deletion.
C22_Witness ==
  /\ piranha_arguments.cleanup_comments
  /\ Running /\ Top.fn = "propagate" /\ Top.pc = "loop" /\ Top.current_rule = "RD"
  /\ Len(rewrites) >= 2 /\ IsCommentDeletion(rewrites[Len(rewrites)])
  /\ RuleOf(1) = "RX"
  /\ Top.range.start_byte = rewrites[Len(rewrites)].p_match.range.start_byte
  /\ Top.range.start_byte < rewrites[Len(rewrites) - 1].p_match.range.start_byte

\* The nodes that _is_satisfied tests against the matcher for the node n.
Tested(n, constraint) ==
  WalkTested(ThisUnit, constraint, walk_start(ThisUnit, n), substitutions)

\* Constraints whose matcher is any group, a group (x,B), and no parent at all.
WalkConstraints ==
  { Constraint(QGroup(CapE), <<QAtom(<<"z">>, CapA)>>),
    Constraint(QCond(<<"x">>, CapB), <<QAtom(<<"y">>, CapA)>>),
    Constraint(QAtom(<<"x">>, CapA), <<>>) }

\* C23: for a node with children the first node tested against the matcher is
\* the node itself; for a leaf the node is not tested and the first node tested
\* is its parent; each node tested after another is its parent, only the last
\* can match, and when none matches the last is the root.  What _is_satisfied
\* returns is decided at the last node tested.
C23_ConstraintWalkOrder ==
  \A n \in MatchableNodes \cup {TreeRoot(ast.nodes)}, c \in WalkConstraints :
    \E tr \in {Tested(n, c)} :
      /\ ChildCount(ast.nodes, n) > 0 => tr # <<>> /\ tr[1] = n
      /\ ChildCount(ast.nodes, n) = 0
           => /\ \A i \in 1..Len(tr) : tr[i] # n
              /\ IF IsSome(ParentOf(ast.nodes, n))
                 THEN tr # <<>> /\ tr[1] = ParentOf(ast.nodes, n)[1]
                 ELSE tr = <<>>
      /\ \A i \in 1..(Len(tr) - 1) :
           /\ Some(tr[i + 1]) = ParentOf(ast.nodes, tr[i])
           /\ ~MatchesAt(c.matcher, tr[i])
      /\ (tr # <<>> /\ ~MatchesAt(c.matcher, tr[Len(tr)]))
           => tr[Len(tr)] = TreeRoot(ast.nodes)
      /\ is_satisfied_one(ThisUnit, c, n, substitutions)
           <=> /\ tr # <<>> /\ MatchesAt(c.matcher, tr[Len(tr)])
               /\ \A i \in 1..Len(c.queries) :
                    \A d \in Subtree(ast.nodes, tr[Len(tr)]) : ~MatchesAt(c.queries[i], d)

\* RC has rewritten the x of ((x,y),z): for the atom, a leaf, the one node
\* tested was the group around it; for that group the one node tested is itself.
C23_Witness ==
  /\ Len(rewrites) = 1 /\ RuleOf(1) = "RC"
  /\ code = <<"(", "(", "t", ",", "y", ")", ",", "z", ")">>
  /\ \E a \in ast.nodes, g \in ast.nodes :
       /\ a.kind = "atom" /\ a.start_byte = 2
       /\ g.kind = "group" /\ g.start_byte = 1 /\ g.end_byte = 6
       /\ Tested(a, RuleDef("RC").constraints[1]) = <<g>>
       /\ Tested(g, RuleDef("RC").constraints[1]) = <<g>>

\* The scope queries held by the frames and by the queues of the stack.
ScopeQueriesHeld ==
  {stack[i].scope_query[1] : i \in {k \in 1..Len(stack) : IsSome(stack[k].scope_query)}}
    \cup UNION {{stack[i].next_rules_stack[j].scope_query :
                   j \in 1..Len(stack[i].next_rules_stack)} : i \in 1..Len(stack)}

\* The scope query has no match in the present tree.
ScopeLost(q) ==
  ~IsSome(get_match_for_query(ast.nodes, code, q, TreeRoot(ast.nodes), TRUE))

\* C24: get_scope_node gives the root when there is no scope query and when the
\* scope query has no match in the present tree; a step of apply_rule for a
\* queued rule whose scope query has no match takes the first edit, or the
\* matches, of the rule in the whole file.
C24_LostScopeFallsBackToRoot ==
  /\ [](/\ get_scope_node(ThisUnit, None) = TreeRoot(ast.nodes)
        /\ \A q \in ScopeQueriesHeld :
             ScopeLost(q) => get_scope_node(ThisUnit, Some(q)) = TreeRoot(ast.nodes))
  /\ [][(Running /\ Top.fn = "apply_rule" /\ IsSome(Top.scope_query)
           /\ ScopeLost(Top.scope_query[1]))
          => IF is_match_only_rule(Top.rule)
             THEN Head(stack').ms
                    = get_matches(ThisUnit, Top.rule, TreeRoot(ast.nodes), TRUE,
                                  piranha_arguments.input_substitutions)
             ELSE \E e \in {get_edit(ThisUnit, Top.rule, TreeRoot(ast.nodes), TRUE,
                                     piranha_arguments.input_substitutions)} :
                    IF IsSome(e)
                    THEN /\ Len(rewrites') > Len(rewrites)
                         /\ rewrites'[Len(rewrites) + 1] = e[1]
                    ELSE rewrites' = rewrites /\ stack' = Tail(stack)]_vars

\* RD was queued for the Class around the x of (x,y); the Parent edit of RT has
\* removed that group, and RD has deleted the y that was left in the file.
C24_Witness ==
  /\ Running /\ Len(stack) >= 2 /\ Top.fn = "propagate"
  /\ stack[2].fn = "apply_rule" /\ stack[2].rule.name = "RD"
  /\ IsSome(stack[2].scope_query) /\ ScopeLost(stack[2].scope_query[1])
  /\ stack[2].scope_query[1].tag = "Class"
  /\ [i \in 1..Len(rewrites) |-> RuleOf(i)] = <<"RX", "RT", "RD">>
  /\ rewrites[1].p_match.matched_string = <<"x">>
  /\ code = <<>>

====
